---- MODULE Spec2Model ----
(***************************************************************************)
(* Model of the Streamlit microclimate dashboards:                         *)
(*   analysis_dashboard.py  load_microclimate_data, the cardinal-direction *)
(*                          conversion and the render pass of main;        *)
(*   spatial_dashboard.py   load_site_metadata, create_indonesia_map and   *)
(*                          the render pass of main.                       *)
(*                                                                         *)
(* Numbers.  Every float of the program is held as an integer counting     *)
(* halves (Unit = 2): the cell 350.0 is 700, 22.5 is 45, the site id 1.5   *)
(* is 3.  Timestamps are positive integers in time order.  NaN and NaT are *)
(* the nulls pandas puts where a coercion fails.                           *)
(***************************************************************************)
EXTENDS Integers, Sequences, FiniteSets, TLC

VARIABLES
    page,             \* which script runs: "analysis", "spatial", or a function harness
    pc,               \* position of the running script
    uploaded_file,    \* analysis: what st.file_uploader returned
    df,               \* analysis: the table main holds (or None)
    latest,           \* analysis: main's latest = df.iloc[-1]
    vp_latest,        \* analysis: the latest row create_vertical_profile_chart read
    called,           \* the derivations and builders invoked in this pass
    error,            \* the exception that ended the pass, "" if none
    metafile,         \* spatial: contents of metadata_site_ikro.csv
    cache,            \* spatial: the st.cache_data entry of load_site_metadata
    sites,            \* spatial: the table main holds (or None)
    selected_site_id, \* spatial: the id parsed from the selector
    m,                \* spatial: what create_indonesia_map produced
    wd_now,           \* conversion harness: the angle given (in halves of a degree)
    label,            \* conversion harness: the result of the conversion
    reads,            \* spatial: how often the body of load_site_metadata has run
    selector,         \* spatial: the selectbox, its default and its chosen option
    table,            \* builder harness: the normalized sensor table given to a builder
    chart,            \* builder harness: what the builder produced
    csv,              \* export harness: the text df.to_csv(index=False) wrote
    df2               \* export harness: the table loaded back from that text

vars == <<page, pc, uploaded_file, df, latest, vp_latest, called, error,
          metafile, cache, sites, selected_site_id, m, wd_now, label,
          reads, selector, table, chart, csv, df2>>

builder_vars == <<table, chart, csv, df2>>

(***************************************************************************)
(* Bounds of the model.                                                    *)
(***************************************************************************)
MaxRows == 3        \* rows of an uploaded sensor CSV
MaxSites == 2       \* rows of the metadata CSV
MaxAngle == 1500    \* |angle| in halves of a degree given to the conversion

(***************************************************************************)
(* Values.                                                                 *)
(***************************************************************************)
Unit == 2           \* a float x is held as the integer Unit * x
NaN == 99999        \* float null (pd.to_numeric(errors='coerce'), empty CSV cell)
NaT == 0            \* datetime null (pd.to_datetime(errors='coerce'))

\* A raw CSV cell as pd.read_csv hands it over.
Num(v) == [k |-> "num", v |-> v]        \* text that reads as the number v / Unit
Stamp(t) == [k |-> "ts", v |-> t]       \* text that reads as the date-time t
Txt == [k |-> "txt", v |-> 0]           \* any other text
Empty == [k |-> "empty", v |-> 0]       \* an empty cell (NaN after read_csv)

Range(s) == {s[i] : i \in 1..Len(s)}

SeqsUpTo(S, n) == UNION {[1..k -> S] : k \in 0..n}

(***************************************************************************)
(* analysis_dashboard.py: load_microclimate_data                           *)
(***************************************************************************)
\* pd.to_datetime(col, errors='coerce') on one cell
to_datetime(c) == IF c.k = "ts" THEN c.v ELSE NaT

\* pd.to_numeric(col, errors='coerce') on one cell
to_numeric(c) == IF c.k = "num" THEN c.v ELSE NaN

\* df['date_time'] = pd.to_datetime(df['date_time'], ...)
parse_date_time(rows) ==
    [i \in 1..Len(rows) |-> [rows[i] EXCEPT !.date_time = to_datetime(@)]]

HasDateTime(r) == r.date_time # NaT

IsComplete(r) == r.date_time # NaT /\ r.wd4_now.k # "empty"

\* a plausible slip: df.dropna() without subset drops a row for any null cell
dropna_any(rows) == SelectSeq(rows, IsComplete)

\* df.dropna(subset=['date_time'])
dropna_date_time(rows) == SelectSeq(rows, HasDateTime)

\* numeric_columns: every column but id_logger and date_time, each through to_numeric
coerce_numeric(rows) ==
    [i \in 1..Len(rows) |-> [rows[i] EXCEPT !.wd4_now = to_numeric(@)]]

Perms(n) == {p \in [1..n -> 1..n] : \A i, j \in 1..n : i # j => p[i] # p[j]}

\* a plausible slip: the sort left out
sort_values_omitted(rows) == {rows}

\* df.sort_values('date_time').reset_index(drop=True): the default kind is quicksort,
\* which is not stable, so rows of equal date_time may come out in any order.
sort_values(rows) ==
    {[i \in 1..Len(rows) |-> rows[p[i]]] : p \in
        {q \in Perms(Len(rows)) :
            \A i \in 1..(Len(rows) - 1) : rows[q[i]].date_time <= rows[q[i + 1]].date_time}}

None == [none |-> TRUE, rows |-> <<>>]
Table(rows) == [none |-> FALSE, rows |-> rows]

\* where the try block raises: pd.read_csv fails, or df['date_time'] is a KeyError
load_raises(f) == ~f.readable \/ ~f.has_date_time

\* a plausible slip: the except branch hands back an empty table instead of None
load_microclimate_data_swallow(f) ==
    IF ~f.present THEN {None}
    ELSE IF load_raises(f) THEN {Table(<<>>)}
    ELSE {Table(s) : s \in sort_values(coerce_numeric(dropna_date_time(parse_date_time(f.rows))))}

\* load_microclimate_data: the set of tables (or None) the call can return
load_microclimate_data(f) ==
    IF ~f.present THEN {None}
    ELSE IF load_raises(f) THEN {None}
    ELSE {Table(s) : s \in sort_values(coerce_numeric(dropna_date_time(parse_date_time(f.rows))))}

(***************************************************************************)
(* analysis_dashboard.py: main, the cardinal-direction conversion          *)
(***************************************************************************)
directions == <<"N", "NE", "E", "SE", "S", "SW", "W", "NW">>

\* a plausible slip: the half-octant offset left out
cardinal_no_offset(wd) ==
    IF wd = NaN THEN "ValueError"
    ELSE directions[((wd \div (45 * Unit)) % 8) + 1]

\* a plausible slip: division that truncates toward zero instead of flooring
cardinal_truncating(wd) ==
    IF wd = NaN THEN "ValueError"
    ELSE LET x == wd + 45
             q == IF x >= 0 THEN x \div (45 * Unit) ELSE -((-x) \div (45 * Unit))
         IN directions[(q % 8) + 1]

\* directions[int((wd_now + 22.5) // 45) % 8]; int() of a NaN raises ValueError
cardinal(wd) ==
    IF wd = NaN THEN "ValueError"
    ELSE directions[(((wd + 45) \div (45 * Unit)) % 8) + 1]

\* a plausible slip: the first row taken for the last
iloc_first(rows) == rows[1]

\* df.iloc[-1] on a non-empty table
iloc_last(rows) == rows[Len(rows)]

NoRow == [date_time |-> NaT, id_logger |-> Empty, wd4_now |-> NaN]

\* no table given to a builder yet, no chart built yet
NoTable == [columns |-> {}, rows |-> <<>>]
NoChart == [builder |-> "", arg |-> <<>>, raised |-> "", column |-> <<>>, traces |-> <<>>,
            yrange |-> <<>>, hlines |-> <<>>, rows |-> <<>>]

(***************************************************************************)
(* Inputs of the analysis dashboard: the uploaded sensor CSV.              *)
(***************************************************************************)
RawDates == {Stamp(1), Stamp(2), Txt}

RawWd == {Num(700), Num(-20), Txt, Empty}

SensorRows == [date_time : RawDates, id_logger : {Txt}, wd4_now : RawWd]

\* st.file_uploader returned None
NoFile == [present |-> FALSE, readable |-> FALSE, has_date_time |-> FALSE, rows |-> <<>>]

Uploads ==
    {NoFile}
    \cup {[present |-> TRUE, readable |-> TRUE, has_date_time |-> TRUE, rows |-> r] :
            r \in SeqsUpTo(SensorRows, MaxRows)}
    \cup {[present |-> TRUE, readable |-> FALSE, has_date_time |-> FALSE, rows |-> <<>>]}
    \cup {[present |-> TRUE, readable |-> TRUE, has_date_time |-> FALSE, rows |-> r] :
            r \in SeqsUpTo([date_time : {Empty}, id_logger : {Txt}, wd4_now : RawWd], 1)}

AnalysisIdle ==
    /\ uploaded_file = NoFile
    /\ df = None
    /\ latest = NoRow
    /\ vp_latest = NoRow

HarnessIdle ==
    /\ wd_now = 0
    /\ label = ""

\* nothing given to a builder, nothing exported
BuilderIdle ==
    /\ table = NoTable
    /\ chart = NoChart
    /\ csv = <<>>
    /\ df2 = None

(***************************************************************************)
(* analysis_dashboard.py: one render pass of main                          *)
(***************************************************************************)
spatial_vars == <<metafile, cache, sites, selected_site_id, m, reads, selector>>

\* an interaction starts the script: st.file_uploader holds a file, or nothing
AnStart ==
    /\ page = "analysis" /\ pc = "idle"
    /\ uploaded_file' \in Uploads
    /\ pc' = "start"
    /\ UNCHANGED <<page, df, latest, vp_latest, called, error, wd_now, label>>
    /\ UNCHANGED spatial_vars
    /\ UNCHANGED builder_vars

\* df = load_microclimate_data()
AnLoad ==
    /\ page = "analysis" /\ pc = "start"
    /\ \E t \in load_microclimate_data(uploaded_file) : df' = t
    /\ pc' = "loaded"
    /\ UNCHANGED <<page, uploaded_file, latest, vp_latest, called, error, wd_now, label>>
    /\ UNCHANGED spatial_vars
    /\ UNCHANGED builder_vars

\* if df is None: st.error(...); return
AnNoneCheck ==
    /\ page = "analysis" /\ pc = "loaded"
    /\ pc' = IF df.none THEN "done" ELSE "latest"
    /\ UNCHANGED <<page, uploaded_file, df, latest, vp_latest, called, error, wd_now, label>>
    /\ UNCHANGED spatial_vars
    /\ UNCHANGED builder_vars

\* latest = df.iloc[-1]: IndexError on an empty table
AnLatest ==
    /\ page = "analysis" /\ pc = "latest"
    /\ IF df.rows = <<>>
       THEN /\ error' = "IndexError"
            /\ pc' = "crashed"
            /\ UNCHANGED latest
       ELSE /\ latest' = iloc_last(df.rows)
            /\ pc' = "metrics"
            /\ UNCHANGED error
    /\ UNCHANGED <<page, uploaded_file, df, vp_latest, called, wd_now, label>>
    /\ UNCHANGED spatial_vars
    /\ UNCHANGED builder_vars

\* the metric panels: now/avg deltas, and the cardinal direction of wd{h}_now
AnMetrics ==
    /\ page = "analysis" /\ pc = "metrics"
    /\ called' = called \cup {"metrics"}
    /\ IF cardinal(latest.wd4_now) = "ValueError"
       THEN /\ error' = "ValueError"
            /\ pc' = "crashed"
            /\ UNCHANGED label
       ELSE /\ label' = cardinal(latest.wd4_now)
            /\ pc' = "charts"
            /\ UNCHANGED error
    /\ UNCHANGED <<page, uploaded_file, df, latest, vp_latest, wd_now>>
    /\ UNCHANGED spatial_vars
    /\ UNCHANGED builder_vars

\* the four tabs: comparison charts, vertical profiles, wind-direction charts
AnCharts ==
    /\ page = "analysis" /\ pc = "charts"
    /\ called' = called \cup {"create_temperature_comparison_chart",
                              "create_humidity_comparison_chart",
                              "create_wind_speed_comparison_chart",
                              "create_wind_direction_chart",
                              "create_vertical_profile_chart"}
    /\ vp_latest' = iloc_last(df.rows)
    /\ pc' = "export"
    /\ UNCHANGED <<page, uploaded_file, df, latest, error, wd_now, label>>
    /\ UNCHANGED spatial_vars
    /\ UNCHANGED builder_vars

\* the data summary and the export buttons
AnExport ==
    /\ page = "analysis" /\ pc = "export"
    /\ called' = called \cup {"export"}
    /\ pc' = "done"
    /\ UNCHANGED <<page, uploaded_file, df, latest, vp_latest, error, wd_now, label>>
    /\ UNCHANGED spatial_vars
    /\ UNCHANGED builder_vars

\* the pass is over; the page waits for the next interaction
AnRerun ==
    /\ page = "analysis" /\ pc \in {"done", "crashed"}
    /\ uploaded_file' = NoFile
    /\ df' = None /\ latest' = NoRow /\ vp_latest' = NoRow
    /\ called' = {} /\ error' = "" /\ label' = ""
    /\ pc' = "idle"
    /\ UNCHANGED <<page, wd_now>>
    /\ UNCHANGED spatial_vars
    /\ UNCHANGED builder_vars

(***************************************************************************)
(* spatial_dashboard.py: load_site_metadata                                *)
(***************************************************************************)
\* the four pd.to_numeric(..., errors='coerce') assignments, on one row
coerce_site(r) ==
    [id_site |-> to_numeric(r.id_site),
     latitude |-> to_numeric(r.latitude),
     longitude |-> to_numeric(r.longitude),
     th_pengadaan |-> to_numeric(r.th_pengadaan)]

coerce_sites(rows) == [i \in 1..Len(rows) |-> coerce_site(rows[i])]

HasCoordinates(r) == r.latitude # NaN /\ r.longitude # NaN

HasEverything(r) ==
    r.latitude # NaN /\ r.longitude # NaN /\ r.id_site # NaN /\ r.th_pengadaan # NaN

\* a plausible slip: df.dropna() without subset
dropna_sites_any(rows) == SelectSeq(rows, HasEverything)

\* df.dropna(subset=['latitude', 'longitude'])
dropna_coordinates(rows) == SelectSeq(rows, HasCoordinates)

\* dtype of df['id_site'] after pd.to_numeric: int64 when every cell of the file reads
\* as a whole number, float64 as soon as one is null, text or fractional.  dropna
\* keeps the dtype.  (Not read for a table without rows.)
id_dtype(rawrows) ==
    IF \A i \in 1..Len(rawrows) :
          rawrows[i].id_site.k = "num" /\ rawrows[i].id_site.v % Unit = 0
    THEN "int64" ELSE "float64"

NoSites == [none |-> TRUE, rows |-> <<>>, id_dtype |-> "int64"]

\* where the try block raises: the file is missing or unreadable, or lacks a column
metadata_raises(f) == ~f.readable \/ ~f.has_columns

\* a plausible slip: the except branch hands back an empty table instead of None
read_site_metadata_swallow(f) ==
    IF metadata_raises(f)
    THEN [none |-> FALSE, rows |-> <<>>, id_dtype |-> "int64"]
    ELSE [none |-> FALSE,
          rows |-> dropna_coordinates(coerce_sites(f.rows)),
          id_dtype |-> id_dtype(f.rows)]

\* the body of load_site_metadata (what runs on a cache miss)
read_site_metadata(f) ==
    IF metadata_raises(f)
    THEN NoSites
    ELSE [none |-> FALSE,
          rows |-> dropna_coordinates(coerce_sites(f.rows)),
          id_dtype |-> id_dtype(f.rows)]

NoCache == [set |-> FALSE, val |-> NoSites]

(***************************************************************************)
(* spatial_dashboard.py: create_indonesia_map                              *)
(***************************************************************************)
\* int(x) on a float: truncation toward zero (x is not NaN)
py_int(x) == IF x >= 0 THEN x \div Unit ELSE -((-x) \div Unit)

\* the marker of one row: red star for the selected site, blue info-sign otherwise
marker(site, sel) ==
    [location |-> <<site.latitude, site.longitude>>,
     color |-> IF py_int(site.id_site) = sel THEN "red" ELSE "blue",
     icon |-> IF py_int(site.id_site) = sel THEN "star" ELSE "info-sign"]

\* create_indonesia_map(df, selected_site_id): one marker per row in row order;
\* int(site['id_site']) raises ValueError on the first row whose id is NaN, and
\* then no map is returned.
create_indonesia_map(rows, sel) ==
    IF \E i \in 1..Len(rows) : rows[i].id_site = NaN
    THEN [raised |-> TRUE, markers |-> <<>>]
    ELSE [raised |-> FALSE, markers |-> [i \in 1..Len(rows) |-> marker(rows[i], sel)]]

NoMap == [raised |-> FALSE, markers |-> <<>>]

(***************************************************************************)
(* spatial_dashboard.py: main, the site selector                           *)
(***************************************************************************)
DefaultSiteId == 50001

FirstIndex(S) == CHOOSE i \in S : \A j \in S : i <= j

\* default_index: the position of the first row whose id_site is 50001, else the
\* first position (positions count from 1 here, from 0 in the code); 0 without rows
default_index(rows) ==
    IF rows = <<>> THEN 0
    ELSE IF \E i \in 1..Len(rows) : rows[i].id_site = Unit * DefaultSiteId
    THEN FirstIndex({i \in 1..Len(rows) : rows[i].id_site = Unit * DefaultSiteId})
    ELSE 1

NoSelector == [default |-> 0, chosen |-> 0]

(***************************************************************************)
(* Inputs of the spatial dashboard: metadata_site_ikro.csv.                *)
(***************************************************************************)
\* the ids 50001, 50001.5, 50002 and a missing id
IdCells == {Num(50001 * Unit), Num(50001 * Unit + 1), Num(50002 * Unit), Empty}

LatCells == {Num(20), Num(40), Txt}

LonCells == {Num(10), Empty}

YearCells == {Num(4040), Empty}

SiteRows ==
    [id_site : IdCells, latitude : LatCells, longitude : LonCells, th_pengadaan : YearCells]

NoMeta == [readable |-> FALSE, has_columns |-> FALSE, rows |-> <<>>]

MetaFiles ==
    {NoMeta}
    \cup {[readable |-> TRUE, has_columns |-> FALSE, rows |-> <<>>]}
    \cup {[readable |-> TRUE, has_columns |-> TRUE, rows |-> r] :
            r \in SeqsUpTo(SiteRows, MaxSites)}

SelectedIds == {50001, 50002, 50003}

SpatialIdle ==
    /\ metafile = NoMeta
    /\ cache = NoCache
    /\ sites = NoSites
    /\ selected_site_id = 0
    /\ m = NoMap
    /\ reads = 0
    /\ selector = NoSelector

analysis_vars == <<uploaded_file, df, latest, vp_latest>>

(***************************************************************************)
(* spatial_dashboard.py: one render pass of main                           *)
(***************************************************************************)
\* a plausible slip: the decorator left off, the body run by every call
SpLoad_uncached ==
    /\ page = "spatial" /\ pc = "start"
    /\ sites' = read_site_metadata(metafile)
    /\ cache' = [set |-> TRUE, val |-> read_site_metadata(metafile)]
    /\ reads' = IF reads < 2 THEN reads + 1 ELSE reads
    /\ pc' = "loaded"
    /\ UNCHANGED <<page, called, error, metafile, selected_site_id, m, wd_now, label, selector>>
    /\ UNCHANGED analysis_vars
    /\ UNCHANGED builder_vars

\* df = load_site_metadata(), through @st.cache_data: the body runs on a miss only
SpLoad ==
    /\ page = "spatial" /\ pc = "start"
    /\ IF cache.set
       THEN /\ sites' = cache.val
            /\ UNCHANGED <<cache, reads>>
       ELSE /\ sites' = read_site_metadata(metafile)
            /\ cache' = [set |-> TRUE, val |-> read_site_metadata(metafile)]
            /\ reads' = reads + 1
    /\ pc' = "loaded"
    /\ UNCHANGED <<page, called, error, metafile, selected_site_id, m, wd_now, label, selector>>
    /\ UNCHANGED analysis_vars
    /\ UNCHANGED builder_vars

\* if df is None: st.error(...); return
SpNoneCheck ==
    /\ page = "spatial" /\ pc = "loaded"
    /\ pc' = IF sites.none THEN "done" ELSE "select"
    /\ UNCHANGED <<page, called, error, metafile, cache, sites, selected_site_id, m,
                   wd_now, label, reads, selector>>
    /\ UNCHANGED analysis_vars
    /\ UNCHANGED builder_vars

\* the selector: options "<id_site> - <nama_site>", one of them chosen, and
\* selected_site_id = int(selected_site_display.split(' - ')[0]).
\* Without rows the selectbox returns None and .split is an AttributeError; with a
\* float64 id column the text is "1.0" and int() of it is a ValueError.
SpSelect ==
    /\ page = "spatial" /\ pc = "select"
    /\ IF sites.rows = <<>>
       THEN /\ selector' = [default |-> default_index(sites.rows), chosen |-> 0]
            /\ error' = "AttributeError"
            /\ pc' = "crashed"
            /\ UNCHANGED selected_site_id
       ELSE /\ \E i \in 1..Len(sites.rows) :
                  /\ selector' = [default |-> default_index(sites.rows), chosen |-> i]
                  /\ IF sites.id_dtype = "float64"
                     THEN /\ error' = "ValueError"
                          /\ pc' = "crashed"
                          /\ UNCHANGED selected_site_id
                     ELSE /\ selected_site_id' = sites.rows[i].id_site \div Unit
                          /\ pc' = "map"
                          /\ UNCHANGED error
    /\ UNCHANGED <<page, called, metafile, cache, sites, m, wd_now, label, reads>>
    /\ UNCHANGED analysis_vars
    /\ UNCHANGED builder_vars

\* tab 1: map_obj = create_indonesia_map(df, selected_site_id)
SpMap ==
    /\ page = "spatial" /\ pc = "map"
    /\ called' = called \cup {"create_indonesia_map"}
    /\ m' = create_indonesia_map(sites.rows, selected_site_id)
    /\ IF create_indonesia_map(sites.rows, selected_site_id).raised
       THEN error' = "ValueError" /\ pc' = "crashed"
       ELSE UNCHANGED error /\ pc' = "stats"
    /\ UNCHANGED <<page, metafile, cache, sites, selected_site_id, wd_now, label, reads, selector>>
    /\ UNCHANGED analysis_vars
    /\ UNCHANGED builder_vars

\* tab 2 and tab 3: the three statistics charts and the site directory
SpStats ==
    /\ page = "spatial" /\ pc = "stats"
    /\ called' = called \cup {"create_province_distribution_chart",
                              "create_equipment_distribution_chart",
                              "create_installation_timeline_chart"}
    /\ pc' = "detail"
    /\ UNCHANGED <<page, error, metafile, cache, sites, selected_site_id, m, wd_now, label,
                   reads, selector>>
    /\ UNCHANGED analysis_vars
    /\ UNCHANGED builder_vars

\* tab 4: selected_site = df[df['id_site'] == selected_site_id].iloc[0]
SpDetail ==
    /\ page = "spatial" /\ pc = "detail"
    /\ IF \E i \in 1..Len(sites.rows) : sites.rows[i].id_site = Unit * selected_site_id
       THEN UNCHANGED error /\ pc' = "done"
       ELSE error' = "IndexError" /\ pc' = "crashed"
    /\ UNCHANGED <<page, called, metafile, cache, sites, selected_site_id, m, wd_now, label,
                   reads, selector>>
    /\ UNCHANGED analysis_vars
    /\ UNCHANGED builder_vars

\* the next interaction of the session: the script runs again, the cache entry stays
SpRerun ==
    /\ page = "spatial" /\ pc \in {"done", "crashed"}
    /\ sites' = NoSites /\ selected_site_id' = 0 /\ m' = NoMap
    /\ selector' = NoSelector
    /\ called' = {} /\ error' = ""
    /\ pc' = "start"
    /\ UNCHANGED <<page, metafile, cache, wd_now, label, reads>>
    /\ UNCHANGED analysis_vars
    /\ UNCHANGED builder_vars

(***************************************************************************)
(* The dashboards: a session of either page, render pass after render pass *)
(***************************************************************************)
Init ==
    /\ page \in {"analysis", "spatial"}
    /\ called = {}
    /\ error = ""
    /\ HarnessIdle
    /\ BuilderIdle
    /\ AnalysisIdle
    /\ IF page = "analysis"
       THEN /\ pc = "idle"
            /\ SpatialIdle
       ELSE /\ pc = "start"
            /\ metafile \in MetaFiles
            /\ cache = NoCache /\ sites = NoSites /\ selected_site_id = 0 /\ m = NoMap
            /\ reads = 0 /\ selector = NoSelector

Next ==
    \/ AnStart \/ AnLoad \/ AnNoneCheck \/ AnLatest \/ AnMetrics \/ AnCharts \/ AnExport \/ AnRerun
    \/ SpLoad \/ SpNoneCheck \/ SpSelect \/ SpMap \/ SpStats \/ SpDetail \/ SpRerun

Spec == Init /\ [][Next]_vars

(***************************************************************************)
(* load_microclimate_data run again on the CSV exported from its result.   *)
(***************************************************************************)
\* df.to_csv(index=False), one row: the date-time written out as text that reads as
\* the same date-time, a number as text that reads as the same number, a null cell
\* as an empty field, id_logger as it was read
to_csv_row(r) ==
    [date_time |-> Stamp(r.date_time),
     id_logger |-> r.id_logger,
     wd4_now |-> IF r.wd4_now = NaN THEN Empty ELSE Num(r.wd4_now)]

to_csv(rows) == [i \in 1..Len(rows) |-> to_csv_row(rows[i])]

\* the exported text uploaded again
Exported(text) == [present |-> TRUE, readable |-> TRUE, has_date_time |-> TRUE, rows |-> text]

InitRoundTrip ==
    /\ page = "roundtrip_fn"
    /\ pc = "r_start"
    /\ uploaded_file \in Uploads
    /\ df = None /\ latest = NoRow /\ vp_latest = NoRow
    /\ called = {}
    /\ error = ""
    /\ HarnessIdle
    /\ BuilderIdle
    /\ SpatialIdle

RtLoad ==
    /\ page = "roundtrip_fn" /\ pc = "r_start"
    /\ \E t \in load_microclimate_data(uploaded_file) : df' = t
    /\ pc' = "r_loaded"
    /\ UNCHANGED <<page, uploaded_file, latest, vp_latest, called, error, wd_now, label,
                   table, chart, csv, df2>>
    /\ UNCHANGED spatial_vars

\* csv = df.to_csv(index=False), reached only with a table (main returns on None)
RtExport ==
    /\ page = "roundtrip_fn" /\ pc = "r_loaded"
    /\ ~df.none
    /\ csv' = to_csv(df.rows)
    /\ called' = called \cup {"export"}
    /\ pc' = "r_exported"
    /\ UNCHANGED <<page, uploaded_file, df, latest, vp_latest, error, wd_now, label,
                   table, chart, df2>>
    /\ UNCHANGED spatial_vars

RtReload ==
    /\ page = "roundtrip_fn" /\ pc = "r_exported"
    /\ \E t \in load_microclimate_data(Exported(csv)) : df2' = t
    /\ pc' = "r_done"
    /\ UNCHANGED <<page, uploaded_file, df, latest, vp_latest, called, error, wd_now, label,
                   table, chart, csv>>
    /\ UNCHANGED spatial_vars

NextRoundTrip == RtLoad \/ RtExport \/ RtReload

SpecRoundTrip == InitRoundTrip /\ [][NextRoundTrip]_vars

(***************************************************************************)
(* A session of the spatial page while the metadata file changes on disk.  *)
(***************************************************************************)
MaxCacheRows == 1

CacheRows ==
    [id_site : {Num(50001 * Unit), Empty}, latitude : {Num(20), Txt},
     longitude : {Num(10)}, th_pengadaan : {Empty}]

CacheFiles ==
    {NoMeta}
    \cup {[readable |-> TRUE, has_columns |-> FALSE, rows |-> <<>>]}
    \cup {[readable |-> TRUE, has_columns |-> TRUE, rows |-> r] :
            r \in SeqsUpTo(CacheRows, MaxCacheRows)}

InitCache ==
    /\ page = "spatial"
    /\ pc = "start"
    /\ called = {}
    /\ error = ""
    /\ HarnessIdle
    /\ BuilderIdle
    /\ AnalysisIdle
    /\ metafile \in CacheFiles
    /\ cache = NoCache /\ sites = NoSites /\ selected_site_id = 0 /\ m = NoMap
    /\ reads = 0 /\ selector = NoSelector

\* data/metadata_ikro.csv is rewritten, removed or created; the program takes no notice
SpFileChanges ==
    /\ page = "spatial"
    /\ metafile' \in CacheFiles \ {metafile}
    /\ UNCHANGED <<page, pc, called, error, cache, sites, selected_site_id, m, wd_now, label,
                   reads, selector>>
    /\ UNCHANGED analysis_vars
    /\ UNCHANGED builder_vars

NextCache ==
    \/ SpLoad \/ SpNoneCheck \/ SpSelect \/ SpMap \/ SpStats \/ SpDetail \/ SpRerun
    \/ SpFileChanges

SpecCache == InitCache /\ [][NextCache]_vars

(***************************************************************************)
(* load_site_metadata and create_indonesia_map as functions: any metadata  *)
(* file, any selected id.                                                  *)
(***************************************************************************)
InitMap ==
    /\ page = "map_fn"
    /\ pc = "f_start"
    /\ called = {}
    /\ error = ""
    /\ HarnessIdle
    /\ BuilderIdle
    /\ AnalysisIdle
    /\ metafile \in MetaFiles
    /\ cache = NoCache /\ sites = NoSites /\ selected_site_id = 0 /\ m = NoMap
    /\ reads = 0 /\ selector = NoSelector

\* load_site_metadata() on an empty cache
FnLoad ==
    /\ page = "map_fn" /\ pc = "f_start"
    /\ sites' = read_site_metadata(metafile)
    /\ cache' = [set |-> TRUE, val |-> read_site_metadata(metafile)]
    /\ reads' = reads + 1
    /\ pc' = "f_loaded"
    /\ UNCHANGED <<page, called, error, metafile, selected_site_id, m, wd_now, label, selector>>
    /\ UNCHANGED analysis_vars
    /\ UNCHANGED builder_vars

\* create_indonesia_map(df, selected_site_id) on the table the loader returned
FnMap ==
    /\ page = "map_fn" /\ pc = "f_loaded"
    /\ ~sites.none
    /\ \E sel \in SelectedIds :
          /\ selected_site_id' = sel
          /\ m' = create_indonesia_map(sites.rows, sel)
          /\ error' = IF create_indonesia_map(sites.rows, sel).raised
                      THEN "ValueError" ELSE ""
    /\ called' = called \cup {"create_indonesia_map"}
    /\ pc' = "f_done"
    /\ UNCHANGED <<page, metafile, cache, sites, wd_now, label, reads, selector>>
    /\ UNCHANGED analysis_vars
    /\ UNCHANGED builder_vars

NextMap == FnLoad \/ FnMap

SpecMap == InitMap /\ [][NextMap]_vars

(***************************************************************************)
(* The cardinal-direction conversion as a function of any angle.           *)
(***************************************************************************)
Angles == ((-MaxAngle)..MaxAngle) \cup {NaN}

InitCardinal ==
    /\ page = "cardinal_fn"
    /\ pc = "c_start"
    /\ called = {}
    /\ error = ""
    /\ BuilderIdle
    /\ AnalysisIdle
    /\ SpatialIdle
    /\ wd_now \in Angles
    /\ label = ""

\* cardinal = directions[int((wd_now + 22.5) // 45) % 8]
Convert ==
    /\ page = "cardinal_fn" /\ pc = "c_start"
    /\ label' = IF cardinal(wd_now) = "ValueError" THEN "" ELSE cardinal(wd_now)
    /\ error' = IF cardinal(wd_now) = "ValueError" THEN "ValueError" ELSE ""
    /\ pc' = "c_done"
    /\ UNCHANGED <<page, called, wd_now>>
    /\ UNCHANGED analysis_vars
    /\ UNCHANGED spatial_vars
    /\ UNCHANGED builder_vars

NextCardinal == Convert

SpecCardinal == InitCardinal /\ [][NextCardinal]_vars

(***************************************************************************)
(* analysis_dashboard.py: the chart builders and the summary export.       *)
(* A column f'{parameter}{height}_{stat}' is the triple of its parts; a    *)
(* table is its set of columns and its rows, each a function of the        *)
(* columns.  id_logger and sum_ws{h} are read by no builder and left out.  *)
(***************************************************************************)
heights == <<4, 7, 10>>

parameters == <<"tt", "rh", "ws", "wd">>

statistics == <<"now", "avg", "min", "max">>

Col(parameter, height, stat) == <<parameter, height, stat>>

DateTime == <<"date_time">>

AllColumns ==
    {DateTime} \cup {Col(parameters[i], heights[j], statistics[k]) :
                        i \in 1..4, j \in 1..3, k \in 1..4}

\* df[c] as a sequence of cells
Column(tbl, c) == [i \in 1..Len(tbl.rows) |-> tbl.rows[i][c]]

\* df[c] and latest[c] raise KeyError(c) when c is not a column: of the columns a
\* builder reads, in the order it reads them, the first that is absent (<<>> if none)
FirstAbsent(cols, columns) ==
    LET bad == {i \in 1..Len(cols) : cols[i] \notin columns}
    IN  IF bad = {} THEN <<>> ELSE cols[FirstIndex(bad)]

\* a plausible slip: the lookup failure caught inside the builder, an empty figure returned
KeyError_swallowed(builder, arg, c) ==
    [NoChart EXCEPT !.builder = builder, !.arg = arg]

KeyError(builder, arg, c) ==
    [NoChart EXCEPT !.builder = builder, !.arg = arg, !.raised = "KeyError", !.column = c]

IndexError(builder, arg) ==
    [NoChart EXCEPT !.builder = builder, !.arg = arg, !.raised = "IndexError"]

\* the loop shared by the three comparison builders: for each height, one trace per
\* statistic, each reading df['date_time'] and then df[f'{parameter}{height}_{stat}']
comparison_chart(tbl, builder, parameter, stats) ==
    LET n == Len(stats)
        col(k) == Col(parameter, heights[((k - 1) \div n) + 1], stats[((k - 1) % n) + 1])
        cols == [j \in 1..(2 * 3 * n) |-> IF j % 2 = 1 THEN DateTime ELSE col(j \div 2)]
    IN  IF FirstAbsent(cols, tbl.columns) # <<>>
        THEN KeyError(builder, <<>>, FirstAbsent(cols, tbl.columns))
        ELSE [NoChart EXCEPT
                !.builder = builder,
                !.traces = [k \in 1..(3 * n) |->
                              [name |-> <<col(k)[2], col(k)[3]>>,
                               mode |-> "lines",
                               x |-> Column(tbl, DateTime),
                               y |-> Column(tbl, col(k))]]]

create_temperature_comparison_chart(tbl) ==
    comparison_chart(tbl, "create_temperature_comparison_chart", "tt", <<"avg", "max", "min">>)

create_humidity_comparison_chart(tbl) ==
    comparison_chart(tbl, "create_humidity_comparison_chart", "rh", <<"avg", "max", "min">>)

create_wind_speed_comparison_chart(tbl) ==
    comparison_chart(tbl, "create_wind_speed_comparison_chart", "ws", <<"avg", "max">>)

\* a plausible slip: the scatter of the 'now' column
create_wind_direction_chart_now(tbl, height) ==
    LET cols == <<DateTime, Col("wd", height, "now")>>
    IN  IF FirstAbsent(cols, tbl.columns) # <<>>
        THEN KeyError("create_wind_direction_chart", <<height>>, FirstAbsent(cols, tbl.columns))
        ELSE [NoChart EXCEPT
                !.builder = "create_wind_direction_chart",
                !.arg = <<height>>,
                !.traces = <<[name |-> <<height, "Wind Direction">>,
                              mode |-> "markers",
                              x |-> Column(tbl, DateTime),
                              y |-> Column(tbl, Col("wd", height, "now"))]>>,
                !.hlines = <<360 * Unit, 270 * Unit, 180 * Unit, 90 * Unit, 0>>,
                !.yrange = <<0, 360 * Unit>>]

\* create_wind_direction_chart(df, height): one trace of markers, y = df[f'wd{height}_avg']
create_wind_direction_chart(tbl, height) ==
    LET cols == <<DateTime, Col("wd", height, "avg")>>
    IN  IF FirstAbsent(cols, tbl.columns) # <<>>
        THEN KeyError("create_wind_direction_chart", <<height>>, FirstAbsent(cols, tbl.columns))
        ELSE [NoChart EXCEPT
                !.builder = "create_wind_direction_chart",
                !.arg = <<height>>,
                !.traces = <<[name |-> <<height, "Wind Direction">>,
                              mode |-> "markers",
                              x |-> Column(tbl, DateTime),
                              y |-> Column(tbl, Col("wd", height, "avg"))]>>,
                !.hlines = <<360 * Unit, 270 * Unit, 180 * Unit, 90 * Unit, 0>>,
                !.yrange = <<0, 360 * Unit>>]

\* the three value lists of the profile, min_vals, avg_vals, max_vals, read in this order
profile_stats == <<"min", "avg", "max">>

profile_names == <<"Minimum", "Average", "Maximum">>

\* a plausible slip: the profile of the first row
create_vertical_profile_chart_first(tbl, parameter) ==
    IF tbl.rows = <<>>
    THEN IndexError("create_vertical_profile_chart", <<parameter>>)
    ELSE LET latest_row == iloc_first(tbl.rows)
             cols == [j \in 1..9 |-> Col(parameter, heights[((j - 1) % 3) + 1],
                                         profile_stats[((j - 1) \div 3) + 1])]
         IN  IF FirstAbsent(cols, tbl.columns) # <<>>
             THEN KeyError("create_vertical_profile_chart", <<parameter>>,
                           FirstAbsent(cols, tbl.columns))
             ELSE [NoChart EXCEPT
                     !.builder = "create_vertical_profile_chart",
                     !.arg = <<parameter>>,
                     !.traces = [k \in 1..3 |->
                                   [name |-> <<profile_names[k]>>,
                                    mode |-> "lines+markers",
                                    x |-> [i \in 1..3 |->
                                             latest_row[Col(parameter, heights[i],
                                                            profile_stats[k])]],
                                    y |-> heights]]]

\* create_vertical_profile_chart(df, parameter, ...): latest = df.iloc[-1], then the
\* min, avg and max of the parameter at the three heights, one trace for each list
create_vertical_profile_chart(tbl, parameter) ==
    IF tbl.rows = <<>>
    THEN IndexError("create_vertical_profile_chart", <<parameter>>)
    ELSE LET latest_row == iloc_last(tbl.rows)
             cols == [j \in 1..9 |-> Col(parameter, heights[((j - 1) % 3) + 1],
                                         profile_stats[((j - 1) \div 3) + 1])]
         IN  IF FirstAbsent(cols, tbl.columns) # <<>>
             THEN KeyError("create_vertical_profile_chart", <<parameter>>,
                           FirstAbsent(cols, tbl.columns))
             ELSE [NoChart EXCEPT
                     !.builder = "create_vertical_profile_chart",
                     !.arg = <<parameter>>,
                     !.traces = [k \in 1..3 |->
                                   [name |-> <<profile_names[k]>>,
                                    mode |-> "lines+markers",
                                    x |-> [i \in 1..3 |->
                                             latest_row[Col(parameter, heights[i],
                                                            profile_stats[k])]],
                                    y |-> heights]]]

\* the parameters of the summary export
summary_params == <<"tt", "rh", "ws">>

\* a plausible slip: Min and Max filled from each other's column
summary_stats_swapped(tbl) ==
    IF tbl.rows = <<>>
    THEN IndexError("summary_stats", <<>>)
    ELSE LET latest_row == iloc_last(tbl.rows)
             height(k) == heights[((k - 1) \div 3) + 1]
             param(k) == summary_params[((k - 1) % 3) + 1]
             cols == [j \in 1..36 |-> Col(param(((j - 1) \div 4) + 1),
                                          height(((j - 1) \div 4) + 1),
                                          statistics[((j - 1) % 4) + 1])]
         IN  IF FirstAbsent(cols, tbl.columns) # <<>>
             THEN KeyError("summary_stats", <<>>, FirstAbsent(cols, tbl.columns))
             ELSE [NoChart EXCEPT
                     !.builder = "summary_stats",
                     !.rows = [k \in 1..9 |->
                                 [Height |-> height(k),
                                  Parameter |-> param(k),
                                  Current |-> latest_row[Col(param(k), height(k), "now")],
                                  Average |-> latest_row[Col(param(k), height(k), "avg")],
                                  Min |-> latest_row[Col(param(k), height(k), "max")],
                                  Max |-> latest_row[Col(param(k), height(k), "min")]]]]

\* main, the summary export: latest = df.iloc[-1] (line 302), then for each height
\* and each parameter one row of the latest row's now, avg, min and max
summary_stats(tbl) ==
    IF tbl.rows = <<>>
    THEN IndexError("summary_stats", <<>>)
    ELSE LET latest_row == iloc_last(tbl.rows)
             height(k) == heights[((k - 1) \div 3) + 1]
             param(k) == summary_params[((k - 1) % 3) + 1]
             cols == [j \in 1..36 |-> Col(param(((j - 1) \div 4) + 1),
                                          height(((j - 1) \div 4) + 1),
                                          statistics[((j - 1) % 4) + 1])]
         IN  IF FirstAbsent(cols, tbl.columns) # <<>>
             THEN KeyError("summary_stats", <<>>, FirstAbsent(cols, tbl.columns))
             ELSE [NoChart EXCEPT
                     !.builder = "summary_stats",
                     !.rows = [k \in 1..9 |->
                                 [Height |-> height(k),
                                  Parameter |-> param(k),
                                  Current |-> latest_row[Col(param(k), height(k), "now")],
                                  Average |-> latest_row[Col(param(k), height(k), "avg")],
                                  Min |-> latest_row[Col(param(k), height(k), "min")],
                                  Max |-> latest_row[Col(param(k), height(k), "max")]]]]

(***************************************************************************)
(* The builders as functions of any normalized table.                      *)
(***************************************************************************)
MaxChartRows == 2

IndexOf(s, x) == CHOOSE i \in 1..Len(s) : s[i] = x

\* a different number for every column, so that a cell tells which column it is from
ColCode(c) == 12 * IndexOf(parameters, c[1]) + 4 * IndexOf(heights, c[2])
              + IndexOf(statistics, c[3])

\* cells that may be null after the coercion
NullableCols == {Col("tt", 4, "min"), Col("wd", 7, "avg")}

\* the row at time t: cell c holds b + ColCode(c) halves, null in the columns of nul
SensorRow(t, b, nul) ==
    [c \in AllColumns |-> IF c = DateTime THEN t
                          ELSE IF c \in nul THEN NaN
                          ELSE b + ColCode(c)]

ChartRows ==
    {SensorRow(t, b, nul) : t \in {1, 2}, b \in {0, 100},
                            nul \in {{}} \cup {{c} : c \in NullableCols}}

\* tables as load_microclimate_data returns them: sorted by date_time, none null
FullTables ==
    {[columns |-> AllColumns, rows |-> rows] :
        rows \in {x \in SeqsUpTo(ChartRows, MaxChartRows) :
                    \A i \in 1..(Len(x) - 1) : x[i][DateTime] <= x[i + 1][DateTime]}}

\* columns a file may lack
MissCols ==
    {DateTime, Col("tt", 4, "max"), Col("tt", 7, "avg"), Col("rh", 4, "min"),
     Col("rh", 7, "min"), Col("ws", 10, "now"), Col("wd", 4, "avg")}

PartialTables ==
    {[columns |-> AllColumns \ miss,
      rows |-> <<[c \in AllColumns \ miss |-> SensorRow(1, 0, {})[c]]>>] :
        miss \in (SUBSET MissCols) \ {{}}}

ChartTables == FullTables \cup PartialTables

InitCharts ==
    /\ page = "builder_fn"
    /\ pc = "b_start"
    /\ table \in ChartTables
    /\ chart = NoChart
    /\ csv = <<>>
    /\ df2 = None
    /\ called = {}
    /\ error = ""
    /\ HarnessIdle
    /\ AnalysisIdle
    /\ SpatialIdle

\* the chart (or the failure) of one builder call, handed to the caller
Built(c) ==
    /\ page = "builder_fn" /\ pc = "b_start"
    /\ chart' = c
    /\ error' = c.raised
    /\ called' = called \cup {c.builder}
    /\ pc' = "b_done"
    /\ UNCHANGED <<page, wd_now, label, table, csv, df2>>
    /\ UNCHANGED analysis_vars
    /\ UNCHANGED spatial_vars

BuildTemperature == Built(create_temperature_comparison_chart(table))

BuildHumidity == Built(create_humidity_comparison_chart(table))

BuildWindSpeed == Built(create_wind_speed_comparison_chart(table))

BuildWindDirection == \E i \in 1..3 : Built(create_wind_direction_chart(table, heights[i]))

BuildProfile == \E i \in 1..3 : Built(create_vertical_profile_chart(table, summary_params[i]))

BuildSummary == Built(summary_stats(table))

NextCharts ==
    \/ BuildTemperature
    \/ BuildHumidity
    \/ BuildWindSpeed
    \/ BuildWindDirection
    \/ BuildProfile
    \/ BuildSummary

SpecCharts == InitCharts /\ [][NextCharts]_vars

(***************************************************************************)
(* Properties of load_microclimate_data and of the analysis render pass    *)
(* (checked under Spec).                                                   *)
(***************************************************************************)
Loaded == page = "analysis" /\ pc \notin {"idle", "start"} /\ ~df.none

\* the row a raw row with a parseable date_time must become
Normalized(r) ==
    [date_time |-> r.date_time.v,
     id_logger |-> r.id_logger,
     wd4_now |-> IF r.wd4_now.k = "num" THEN r.wd4_now.v ELSE NaN]

Parseable(r) == r.date_time.k = "ts"

Count(s, x) == Cardinality({i \in 1..Len(s) : s[i] = x})

\* C1: every table load_microclimate_data returns is sorted non-decreasing by
\* date_time and holds no row whose date_time is null.
C1_SortedNoNullTimestamp ==
    Loaded =>
        /\ \A i \in 1..(Len(df.rows) - 1) : df.rows[i].date_time <= df.rows[i + 1].date_time
        /\ \A i \in 1..Len(df.rows) : df.rows[i].date_time # NaT

\* C1 witness: an upload in the order (late, unparseable, early) came out as (early, late).
C1_Witness ==
    /\ Loaded
    /\ Len(uploaded_file.rows) = 3
    /\ uploaded_file.rows[1].date_time = Stamp(2)
    /\ uploaded_file.rows[2].date_time = Txt
    /\ uploaded_file.rows[3].date_time = Stamp(1)
    /\ Len(df.rows) = 2
    /\ df.rows[1].date_time = 1 /\ df.rows[2].date_time = 2

\* C2: a row is removed if and only if its date_time fails to parse; a cell of another
\* column that fails numeric coercion becomes null in that cell only and the row stays
\* (id_logger is left as it is), so the table holds exactly the rows of the upload with
\* a parseable date_time, each as often as the upload holds it.
C2_RowDroppedIffDateUnparseable ==
    Loaded =>
        /\ Len(df.rows) = Cardinality({i \in 1..Len(uploaded_file.rows) :
                                          Parseable(uploaded_file.rows[i])})
        /\ \A i \in 1..Len(uploaded_file.rows) :
              Parseable(uploaded_file.rows[i]) =>
                 Count(df.rows, Normalized(uploaded_file.rows[i]))
                    = Cardinality({j \in 1..Len(uploaded_file.rows) :
                                      /\ Parseable(uploaded_file.rows[j])
                                      /\ Normalized(uploaded_file.rows[j])
                                            = Normalized(uploaded_file.rows[i])})

\* C2 witness: one row lost to its date_time, one row kept with a nulled text cell,
\* one row kept with an empty cell.
C2_Witness ==
    /\ Loaded
    /\ Len(uploaded_file.rows) = 3
    /\ \E i \in 1..3 : ~Parseable(uploaded_file.rows[i])
    /\ \E i \in 1..3 : Parseable(uploaded_file.rows[i]) /\ uploaded_file.rows[i].wd4_now = Txt
    /\ \E i \in 1..3 : Parseable(uploaded_file.rows[i]) /\ uploaded_file.rows[i].wd4_now = Empty
    /\ Len(df.rows) = 2
    /\ \A i \in 1..2 : df.rows[i].wd4_now = NaN

IsNewest(r) ==
    /\ r \in Range(df.rows)
    /\ \A i \in 1..Len(df.rows) : df.rows[i].date_time <= r.date_time

\* C3: on a non-empty table the row taken as "latest" (df.iloc[-1]) by main, for the
\* metric panels and the summary export, and by create_vertical_profile_chart, carries
\* the maximum date_time of the table.
C3_LatestIsMaxTimestamp ==
    page = "analysis" =>
        /\ pc \in {"metrics", "charts", "export"} => latest # NoRow
        /\ pc = "export" => vp_latest # NoRow
        /\ latest # NoRow => IsNewest(latest)
        /\ vp_latest # NoRow => IsNewest(vp_latest)

\* C3 witness: the charts are drawn from a table of two different timestamps that was
\* uploaded newest first.
C3_Witness ==
    /\ page = "analysis" /\ pc = "export"
    /\ Len(uploaded_file.rows) >= 2
    /\ uploaded_file.rows[1].date_time = Stamp(2)
    /\ uploaded_file.rows[2].date_time = Stamp(1)
    /\ latest.date_time = 2 /\ vp_latest.date_time = 2

LoadFailed ==
    \/ page = "analysis" /\ uploaded_file.present /\ load_raises(uploaded_file)
    \/ page = "spatial" /\ metadata_raises(metafile)

\* C7: when loading raises (sensor CSV or metadata CSV), the loader returns None and
\* main ends the pass: no metric derivation, chart builder or map builder is invoked
\* and no exception leaves the loader.
C7_LoadFailureEndsPass ==
    (LoadFailed /\ pc \notin {"idle", "start"}) =>
        /\ page = "analysis" => df.none
        /\ page = "spatial" => sites.none
        /\ called = {}
        /\ error = ""
        /\ pc \in {"loaded", "done"}

\* C7 witness: an upload without a date_time column; the pass is over, nothing built.
C7_Witness ==
    /\ page = "analysis" /\ pc = "done"
    /\ uploaded_file.present /\ uploaded_file.readable /\ ~uploaded_file.has_date_time
    /\ df.none /\ called = {} /\ error = ""

\* C8 (as claimed): main reaches the latest-row lookup only with a table it knows to
\* be non-empty, and an empty table never ends in a generic lookup failure.
C8_EmptyTableGuarded ==
    page = "analysis" =>
        /\ pc = "latest" => df.rows # <<>>
        /\ error # "IndexError"

(***************************************************************************)
(* Properties of the cardinal-direction conversion (checked under          *)
(* SpecCardinal).                                                          *)
(***************************************************************************)
Converted == page = "cardinal_fn" /\ pc = "c_done"

InRange(a) == a # NaN /\ 0 <= a /\ a < 360 * Unit

\* the compass octant of an angle of [0, 360), by its boundaries 22.5, 67.5, ...
OctantLabel(a) ==
    IF a < 45 THEN "N"
    ELSE IF a < 135 THEN "NE"
    ELSE IF a < 225 THEN "E"
    ELSE IF a < 315 THEN "SE"
    ELSE IF a < 405 THEN "S"
    ELSE IF a < 495 THEN "SW"
    ELSE IF a < 585 THEN "W"
    ELSE IF a < 675 THEN "NW"
    ELSE "N"

\* C4: the conversion is total on [0, 360): it yields one of the eight labels (index
\* 0..7), with cardinal(0) = N, cardinal(45) = NE, cardinal(90) = E, cardinal(180) = S
\* and cardinal(359) = N.
C4_CardinalTotalOnRange ==
    (Converted /\ InRange(wd_now)) =>
        /\ error = ""
        /\ label \in Range(directions)
        /\ wd_now = 0 => label = "N"
        /\ wd_now = 45 * Unit => label = "NE"
        /\ wd_now = 90 * Unit => label = "E"
        /\ wd_now = 180 * Unit => label = "S"
        /\ wd_now = 359 * Unit => label = "N"

\* C4 witness: 359 degrees converted to N.
C4_Witness == Converted /\ wd_now = 359 * Unit /\ label = "N"

\* C5 (as claimed): an angle outside [0, 360) is rejected with an error, not mapped
\* to a label.
C5_OutOfRangeRejected ==
    (Converted /\ ~InRange(wd_now)) => (error # "" /\ label \notin Range(directions))

\* C5 (amended): a finite angle outside [0, 360) is not rejected: no error is raised
\* and it is mapped to the label of the angle reduced modulo 360.
C5_OutOfRangeWrapped ==
    (Converted /\ wd_now # NaN /\ ~InRange(wd_now)) =>
        /\ error = ""
        /\ label = OctantLabel(wd_now % (360 * Unit))

\* C5 witness: -30 degrees converted to NW, the label of 330 degrees.
C5_Witness == Converted /\ wd_now = -30 * Unit /\ label = "NW" /\ error = ""

(***************************************************************************)
(* Properties of load_site_metadata and create_indonesia_map (checked      *)
(* under SpecMap).                                                         *)
(***************************************************************************)
SitesLoaded == page = "map_fn" /\ pc \in {"f_loaded", "f_done"} /\ ~sites.none

Kept(rawrows) ==
    {i \in 1..Len(rawrows) : rawrows[i].latitude.k = "num" /\ rawrows[i].longitude.k = "num"}

NthKept(rawrows, j) ==
    CHOOSE i \in Kept(rawrows) : Cardinality({x \in Kept(rawrows) : x <= i}) = j

NumberOrNull(c) == IF c.k = "num" THEN c.v ELSE NaN

\* C6: load_site_metadata drops exactly the rows whose latitude or longitude is null
\* or non-numeric and keeps every other row, in file order, also when its id_site or
\* th_pengadaan is null; every row of the result has both coordinates numeric.
C6_DropsExactlyBadCoordinates ==
    SitesLoaded =>
        /\ Len(sites.rows) = Cardinality(Kept(metafile.rows))
        /\ \A j \in 1..Len(sites.rows) :
              LET r == metafile.rows[NthKept(metafile.rows, j)]
              IN /\ sites.rows[j].latitude = r.latitude.v
                 /\ sites.rows[j].longitude = r.longitude.v
                 /\ sites.rows[j].latitude # NaN /\ sites.rows[j].longitude # NaN
                 /\ sites.rows[j].id_site = NumberOrNull(r.id_site)
                 /\ sites.rows[j].th_pengadaan = NumberOrNull(r.th_pengadaan)

\* C6 witness: of two rows the one with a text latitude is gone, the one with neither
\* id_site nor th_pengadaan is kept.
C6_Witness ==
    /\ SitesLoaded
    /\ Len(metafile.rows) = 2
    /\ metafile.rows[1].latitude = Txt
    /\ metafile.rows[2].id_site = Empty /\ metafile.rows[2].th_pengadaan = Empty
    /\ Len(sites.rows) = 1
    /\ sites.rows[1].id_site = NaN /\ sites.rows[1].th_pengadaan = NaN

MapBuilt == page = "map_fn" /\ pc = "f_done"

Highlighted(mk) == mk.color = "red" /\ mk.icon = "star"

Default(mk) == mk.color = "blue" /\ mk.icon = "info-sign"

IdInTable == \E i \in 1..Len(sites.rows) : sites.rows[i].id_site = Unit * selected_site_id

\* C9 (as claimed): when the selected id is the id of a row, the map is returned with
\* exactly one highlighted marker (red star), at that site's coordinates, and every
\* other marker in the default style (blue info-sign).
C9_ExactlyOneHighlighted ==
    (MapBuilt /\ IdInTable) =>
        /\ ~m.raised
        /\ Len(m.markers) = Len(sites.rows)
        /\ \E i \in 1..Len(m.markers) :
              /\ Highlighted(m.markers[i])
              /\ sites.rows[i].id_site = Unit * selected_site_id
              /\ m.markers[i].location = <<sites.rows[i].latitude, sites.rows[i].longitude>>
              /\ \A j \in 1..Len(m.markers) : j # i => Default(m.markers[j])

\* C10 (as claimed): when the selected id is the id of no row, the map is returned
\* without raising and every marker has the default style.
C10_UnknownIdHighlightsNothing ==
    (MapBuilt /\ ~IdInTable) =>
        /\ ~m.raised
        /\ Len(m.markers) = Len(sites.rows)
        /\ \A i \in 1..Len(m.markers) : Default(m.markers[i])

\* C17 (as claimed): for every table load_site_metadata can return, rows with a null
\* id_site included, and for every selected id, create_indonesia_map returns without
\* raising and adds exactly one marker per row of the table.
C17_MapTotalOnLoaderOutput ==
    MapBuilt => (~m.raised /\ Len(m.markers) = Len(sites.rows))

(***************************************************************************)
(* The chart builders and the summary export.                              *)
(***************************************************************************)
BuilderDone == page = "builder_fn" /\ pc = "b_done"

LatestOf(tbl) == tbl.rows[Len(tbl.rows)]

ProfileBuilt == BuilderDone /\ chart.builder = "create_vertical_profile_chart"

ProfileColumns(p) == {<<p, h, st>> : h \in {4, 7, 10}, st \in {"min", "avg", "max"}}

\* C11: for a non-empty table holding the parameter's columns, the vertical profile
\* has exactly three series, Minimum, Average and Maximum, each of length 3 with the
\* heights [4, 7, 10] on the vertical axis, whose value at height h is the latest
\* row's p{h}_min, p{h}_avg and p{h}_max respectively.
C11_ProfileThreeSeries ==
    (ProfileBuilt /\ table.rows # <<>> /\ ProfileColumns(chart.arg[1]) \subseteq table.columns) =>
        /\ chart.raised = ""
        /\ Len(chart.traces) = 3
        /\ <<chart.traces[1].name, chart.traces[2].name, chart.traces[3].name>>
              = << <<"Minimum">>, <<"Average">>, <<"Maximum">> >>
        /\ \A k \in 1..3 :
              /\ chart.traces[k].y = <<4, 7, 10>>
              /\ Len(chart.traces[k].x) = 3
              /\ \A i \in 1..3 :
                    chart.traces[k].x[i] =
                        LatestOf(table)[<<chart.arg[1], <<4, 7, 10>>[i],
                                          <<"min", "avg", "max">>[k]>>]

\* a profile built from a table of two different rows, one of its values null
C11_Witness ==
    /\ ProfileBuilt
    /\ chart.raised = ""
    /\ Len(table.rows) = 2
    /\ table.rows[1] # table.rows[2]
    /\ chart.arg = <<"tt">>
    /\ chart.traces[1].x[1] = NaN

SummaryBuilt == BuilderDone /\ chart.builder = "summary_stats"

SummaryColumns ==
    {<<p, h, st>> : p \in {"tt", "rh", "ws"}, h \in {4, 7, 10},
                    st \in {"now", "avg", "min", "max"}}

\* C12: the summary built from the latest row of a non-empty table holding the
\* columns has exactly 9 rows, one for each pair of a height in {4, 7, 10} and a
\* parameter in {tt, rh, ws}, no pair twice, and in each row Current, Average, Min
\* and Max are the latest row's {param}{height}_now, _avg, _min and _max.
C12_SummaryNineRows ==
    (SummaryBuilt /\ table.rows # <<>> /\ SummaryColumns \subseteq table.columns) =>
        /\ chart.raised = ""
        /\ Len(chart.rows) = 9
        /\ \A h \in {4, 7, 10}, p \in {"tt", "rh", "ws"} :
              \E k \in 1..9 : chart.rows[k].Height = h /\ chart.rows[k].Parameter = p
        /\ \A k1, k2 \in 1..9 :
              (chart.rows[k1].Height = chart.rows[k2].Height
                 /\ chart.rows[k1].Parameter = chart.rows[k2].Parameter) => k1 = k2
        /\ \A k \in 1..9 :
              LET h == chart.rows[k].Height
                  p == chart.rows[k].Parameter
              IN  /\ chart.rows[k].Current = LatestOf(table)[<<p, h, "now">>]
                  /\ chart.rows[k].Average = LatestOf(table)[<<p, h, "avg">>]
                  /\ chart.rows[k].Min = LatestOf(table)[<<p, h, "min">>]
                  /\ chart.rows[k].Max = LatestOf(table)[<<p, h, "max">>]

\* a summary built from a table of two different rows
C12_Witness ==
    /\ SummaryBuilt
    /\ chart.raised = ""
    /\ Len(table.rows) = 2
    /\ table.rows[1] # table.rows[2]
    /\ Len(chart.rows) = 9

\* the columns a builder call reads
ReadBy(c) ==
    CASE c.builder = "create_temperature_comparison_chart" ->
            {<<"date_time">>} \cup {<<"tt", h, st>> : h \in {4, 7, 10}, st \in {"avg", "max", "min"}}
      [] c.builder = "create_humidity_comparison_chart" ->
            {<<"date_time">>} \cup {<<"rh", h, st>> : h \in {4, 7, 10}, st \in {"avg", "max", "min"}}
      [] c.builder = "create_wind_speed_comparison_chart" ->
            {<<"date_time">>} \cup {<<"ws", h, st>> : h \in {4, 7, 10}, st \in {"avg", "max"}}
      [] c.builder = "create_wind_direction_chart" ->
            {<<"date_time">>, <<"wd", c.arg[1], "avg">>}
      [] c.builder = "create_vertical_profile_chart" -> ProfileColumns(c.arg[1])
      [] c.builder = "summary_stats" -> SummaryColumns

\* a builder has run on a non-empty table that lacks a column it reads
ColumnLacking == BuilderDone /\ table.rows # <<>> /\ ReadBy(chart) \ table.columns # {}

\* C13 (as claimed): a builder given a table that lacks a column it reads fails with
\* a MissingColumnError naming the absent column, not with a generic lookup failure,
\* and the error reaches the caller.
C13_MissingColumnErrorRaised ==
    ColumnLacking =>
        /\ chart.raised = "MissingColumnError"
        /\ chart.column \in ReadBy(chart) \ table.columns
        /\ error = "MissingColumnError"

\* C13 (amended): a builder given a table that lacks a column it reads fails with the
\* generic lookup failure, KeyError, which carries the name of an absent column that
\* the builder reads; no figure is returned and the error reaches the caller.
C13_KeyErrorPropagates ==
    ColumnLacking =>
        /\ chart.raised = "KeyError"
        /\ chart.column \in ReadBy(chart) \ table.columns
        /\ chart.traces = <<>> /\ chart.rows = <<>>
        /\ error = "KeyError"

\* the temperature builder on a table lacking two of the columns it reads
C13_Witness ==
    /\ ColumnLacking
    /\ chart.builder = "create_temperature_comparison_chart"
    /\ {<<"tt", 4, "max">>, <<"tt", 7, "avg">>} \cap table.columns = {}
    /\ chart.column = <<"tt", 4, "max">>
    /\ error = "KeyError"

WindDirectionBuilt == BuilderDone /\ chart.builder = "create_wind_direction_chart"

ReferenceLines == {0, 90 * Unit, 180 * Unit, 270 * Unit, 360 * Unit}

\* C15 (as claimed): for each height h the wind direction chart is one scatter of the
\* wd{h}_now column against date_time, the vertical axis bounded to [0, 360], with
\* horizontal reference lines at exactly 0, 90, 180, 270 and 360.
C15_PlotsNowColumn ==
    (WindDirectionBuilt /\ table.columns = AllColumns) =>
        /\ chart.raised = ""
        /\ Len(chart.traces) = 1
        /\ chart.traces[1].mode = "markers"
        /\ chart.traces[1].x = [i \in 1..Len(table.rows) |-> table.rows[i][<<"date_time">>]]
        /\ chart.traces[1].y = [i \in 1..Len(table.rows) |->
                                  table.rows[i][<<"wd", chart.arg[1], "now">>]]
        /\ chart.yrange = <<0, 360 * Unit>>
        /\ Len(chart.hlines) = 5 /\ Range(chart.hlines) = ReferenceLines

\* C15 (amended): for each height h the wind direction chart is one scatter of the
\* wd{h}_avg column against date_time, the vertical axis bounded to [0, 360], with
\* horizontal reference lines at exactly 0, 90, 180, 270 and 360.
C15_PlotsAvgColumn ==
    (WindDirectionBuilt /\ {<<"date_time">>, <<"wd", chart.arg[1], "avg">>} \subseteq table.columns) =>
        /\ chart.raised = ""
        /\ Len(chart.traces) = 1
        /\ chart.traces[1].mode = "markers"
        /\ chart.traces[1].x = [i \in 1..Len(table.rows) |-> table.rows[i][<<"date_time">>]]
        /\ chart.traces[1].y = [i \in 1..Len(table.rows) |->
                                  table.rows[i][<<"wd", chart.arg[1], "avg">>]]
        /\ chart.yrange = <<0, 360 * Unit>>
        /\ Len(chart.hlines) = 5 /\ Range(chart.hlines) = ReferenceLines

\* the chart of height 7 over two rows, the second with a null wd7_avg
C15_Witness ==
    /\ WindDirectionBuilt
    /\ chart.raised = ""
    /\ chart.arg = <<7>>
    /\ Len(table.rows) = 2
    /\ chart.traces[1].y[2] = NaN
    /\ chart.traces[1].y[1] # table.rows[1][<<"wd", 7, "now">>]

(***************************************************************************)
(* load_site_metadata through its cache.                                   *)
(***************************************************************************)
SitesReturned == page = "spatial" /\ pc \notin {"start"}

\* C14: across the render passes of one session the body of load_site_metadata runs
\* at most once; every call after the first returns the first call's result, which
\* the cache holds unchanged, without reading the file again, whatever that result
\* was (None included) and whatever the file has become since.
C14_ParsedAtMostOnce ==
    page = "spatial" =>
        /\ reads <= 1
        /\ cache.set <=> reads = 1
        /\ SitesReturned => (cache.set /\ sites = cache.val)

\* a later pass returns None, cached from the first read, though the file on disk
\* would now parse to a table with a row
C14_Witness ==
    /\ SitesReturned
    /\ reads = 1
    /\ sites.none
    /\ ~read_site_metadata(metafile).none
    /\ read_site_metadata(metafile).rows # <<>>

(***************************************************************************)
(* The loader over its own export.                                         *)
(***************************************************************************)
Reloaded == page = "roundtrip_fn" /\ pc = "r_done"

\* C16 (as claimed): load_microclimate_data run on the CSV exported from a normalized
\* table gives a table with the same row count, the same row order and the same
\* non-null cell values as that table.
C16_RoundTripSameRows ==
    Reloaded =>
        /\ ~df2.none
        /\ Len(df2.rows) = Len(df.rows)
        /\ \A i \in 1..Len(df.rows) :
              /\ df2.rows[i].date_time = df.rows[i].date_time
              /\ df2.rows[i].id_logger = df.rows[i].id_logger
              /\ df.rows[i].wd4_now # NaN => df2.rows[i].wd4_now = df.rows[i].wd4_now

(***************************************************************************)
(* The site selector of the spatial page.                                  *)
(***************************************************************************)
\* the selectbox has returned an option of a loaded, non-empty table
SiteChosen == page = "spatial" /\ ~sites.none /\ sites.rows # <<>> /\ selector.chosen # 0

HasDefaultSite == \E i \in 1..Len(sites.rows) : sites.rows[i].id_site = Unit * 50001

\* C18 (as claimed): in a render pass with a loaded, non-empty table the id parsed
\* from the selected display string is an integer equal to the id_site of some row,
\* so the selected-site lookup is never empty; the selector's default is the first
\* row of site 50001 if there is one, else the first row.
C18_SelectedIdInTable ==
    SiteChosen =>
        /\ error = ""
        /\ \E i \in 1..Len(sites.rows) : sites.rows[i].id_site = Unit * selected_site_id
        /\ IF HasDefaultSite
           THEN /\ sites.rows[selector.default].id_site = Unit * 50001
                /\ \A j \in 1..(selector.default - 1) : sites.rows[j].id_site # Unit * 50001
           ELSE selector.default = 1

====
